---- MODULE Spec2Model ----
(***************************************************************************)
(* Model of cache/cache.go: lruCache, an LRU cache made of a container/list *)
(* recency list (ll), a sync.Map from key to *list.Element (dict) and a     *)
(* sync.Mutex (mu).  Every access to dict is one atomic step of sync.Map;   *)
(* the list and the elements' Value fields are only touched under mu.       *)
(***************************************************************************)
EXTENDS Integers, Sequences, FiniteSets, TLC

\* ---------------------------------------------------------------- bounds
\* Concurrent callers: threads, keys, largest maxElementCount, nodes added.
NumThreads == 2
NumKeys == 2
MaxCap == 2
MaxAdds == 3
\* The sequential caller: keys, largest maxElementCount, nodes added, and
\* the length of the recorded history of Add and Get calls.
NumSeqKeys == 3
MaxSeqCap == 2
MaxSeqAdds == 3
MaxCalls == 4

Nil == 0

\* New takes any int: the smallest maxElementCount tried.
MinCap == -1

Threads == 1..NumThreads
Keys == 1..NumKeys
SeqKeys == 1..NumSeqKeys
KeySpace == Keys \cup SeqKeys
\* The list elements are numbered like the node they were created for.
Elems == 1..(IF MaxAdds > MaxSeqAdds THEN MaxAdds ELSE MaxSeqAdds)

\* A Node: its GetKey() and the identity of the value (nodes are numbered in
\* the order in which Add receives them).
NodeOf(k, i) == [key |-> k, id |-> i]

NilNode == [key |-> Nil, id |-> Nil]

VARIABLES
    ll,        \* c.ll: the elements linked in the list, front first
    value,     \* value[e]: the Value field of element e
    dict,      \* c.dict: key -> element, Nil when the key has no entry
    mu,        \* c.mu: the thread holding the mutex, Nil when free
    cap,       \* c.maxElementCount
    nextNode,  \* the number the next node passed to Add gets
    pc,        \* pc[t]: where thread t is in its current call
    op,        \* op[t]: the method t is executing, "" when idle
    arg,       \* arg[t]: the node of t's Add, NilNode otherwise
    key,       \* key[t]: the key (keyS) of t's Get or Remove past its Load
    handle,    \* handle[t]: the element t loaded from dict before locking
    ret,       \* ret[t]: what t's call returns, set before it returns
    \* history variables, written by the sequential specification only
    cur,       \* the call in progress
    last,      \* the call that returned last, when it is an Add or a Remove
    trace,     \* the Add and Get calls so far, in order, with their results
    recent,    \* the keys present, by their last Add or Get hit, newest first
    \* history variables, written by the linearizability specification only
    lin,       \* the sequential executions the calls so far can stand for
    handed     \* handed[i]: how many calls returned node i out of the cache

codeVars == <<ll, value, dict, mu, cap, nextNode, pc, op, arg, key, handle, ret>>

seqVars == <<cur, last, trace, recent>>

linVars == <<lin, handed>>

vars == <<codeVars, seqVars, linVars>>

Min(a, b) == IF a < b THEN a ELSE b

\* ------------------------------------------------------- return values
NoRet == [kind |-> "none", node |-> NilNode, ok |-> FALSE, n |-> 0]

RetNode(x) == [kind |-> "node", node |-> x, ok |-> FALSE, n |-> 0]

RetBool(b) == [kind |-> "bool", node |-> NilNode, ok |-> b, n |-> 0]

RetInt(i) == [kind |-> "int", node |-> NilNode, ok |-> FALSE, n |-> i]

RetPanic == [kind |-> "panic", node |-> NilNode, ok |-> FALSE, n |-> 0]

\* --------------------------------------------------- container/list
Range(s) == {s[i] : i \in 1..Len(s)}

Without(s, e) == SelectSeq(s, LAMBDA x : x # e)

\* l.PushFront(v): a new element at the front.
PushFront(l, e) == <<e>> \o l

\* A faulty variant: no promotion.
MoveToFrontStays(l, e) == l

\* A faulty variant: an element that is not in the list is linked in again.
MoveToFrontRelinks(l, e) == <<e>> \o Without(l, e)

\* l.MoveToFront(e): nothing when e is not an element of l.
MoveToFront(l, e) == IF e \in Range(l) THEN <<e>> \o Without(l, e) ELSE l

\* A faulty variant: nothing is unlinked.
ListRemoveNothing(l, e) == l

\* l.Remove(e): unlinks e when it is an element of l; e.Value is returned
\* either way (see remove and removeWithKey).
ListRemove(l, e) == Without(l, e)

\* A faulty variant: the front instead of the back.
BackIsFront(l) == l[1]

\* l.Back()
Back(l) == l[Len(l)]

\* ------------------------------------------------------------ sync.Map
Load(d, k) == d[k]

\* A faulty variant: the element is not indexed.
StoreNothing(d, k, e) == d

Store(d, k, e) == [d EXCEPT ![k] = e]

\* A faulty variant: every key goes.
DeleteEverything(d, k) == [x \in DOMAIN d |-> Nil]

Delete(d, k) == [d EXCEPT ![k] = Nil]

\* ------------------------------------------------------------------ New
New(c) ==
    /\ ll = <<>>
    /\ value = [e \in Elems |-> NilNode]
    /\ dict = [k \in KeySpace |-> Nil]
    /\ mu = Nil
    /\ cap = c
    /\ nextNode = 1
    /\ pc = [t \in Threads |-> "idle"]
    /\ op = [t \in Threads |-> ""]
    /\ arg = [t \in Threads |-> NilNode]
    /\ key = [t \in Threads |-> Nil]
    /\ handle = [t \in Threads |-> Nil]
    /\ ret = [t \in Threads |-> NoRet]

\* A faulty variant: the panic comes after c.mu.Lock(), with no deferred Unlock yet.
AddNilLocked(t) ==
    /\ pc[t] = "idle"
    /\ mu = Nil
    /\ mu' = t
    /\ op' = [op EXCEPT ![t] = "Add"]
    /\ ret' = [ret EXCEPT ![t] = RetPanic]
    /\ pc' = [pc EXCEPT ![t] = "Exit"]
    /\ UNCHANGED <<ll, value, dict, cap, nextNode, arg, key, handle>>

\* ------------------------------------------------------------------ Add
\* Add(nil): node.GetKey() on a nil interface panics, before the mutex is
\* taken.
AddNil(t) ==
    /\ pc[t] = "idle"
    /\ op' = [op EXCEPT ![t] = "Add"]
    /\ ret' = [ret EXCEPT ![t] = RetPanic]
    /\ pc' = [pc EXCEPT ![t] = "Exit"]
    /\ UNCHANGED <<ll, value, dict, mu, cap, nextNode, arg, key, handle>>

\* Add(node) with a node of key k: key := string(node.GetKey()).
AddCall(t, k) ==
    /\ pc[t] = "idle"
    /\ op' = [op EXCEPT ![t] = "Add"]
    /\ arg' = [arg EXCEPT ![t] = NodeOf(k, nextNode)]
    /\ nextNode' = nextNode + 1
    /\ pc' = [pc EXCEPT ![t] = "AddLock"]
    /\ UNCHANGED <<ll, value, dict, mu, cap, key, handle, ret>>

\* c.mu.Lock() of Add, Get, Len and Remove.
Lock(t) ==
    /\ pc[t] \in {"AddLock", "GetLock", "LenLock", "RemoveLock"}
    /\ mu = Nil
    /\ mu' = t
    /\ pc' = [pc EXCEPT ![t] =
                CASE pc[t] = "AddLock" -> "AddBody"
                  [] pc[t] = "GetLock" -> "GetBody"
                  [] pc[t] = "LenLock" -> "LenBody"
                  [] pc[t] = "RemoveLock" -> "RemoveBody"]
    /\ UNCHANGED <<ll, value, dict, cap, nextNode, op, arg, key, handle, ret>>

\* A faulty variant: an Add of a key in the index pushes a new element all the same.
AddBodyAlwaysPushes(t) ==
    /\ pc[t] = "AddBody"
    /\ LET node == arg[t]
       IN /\ ll' = PushFront(ll, node.id)
          /\ value' = [value EXCEPT ![node.id] = node]
          /\ dict' = Store(dict, node.key, node.id)
          /\ pc' = [pc EXCEPT ![t] = "AddEvict"]
          /\ UNCHANGED ret
    /\ UNCHANGED <<mu, cap, nextNode, op, arg, key, handle>>

\* The key is in dict: move its element to the front, swap the Value and
\* return the old one.  Otherwise push a new element and store it.
AddBody(t) ==
    /\ pc[t] = "AddBody"
    /\ LET node == arg[t]
           e == Load(dict, node.key)
       IN IF e # Nil
          THEN /\ ll' = MoveToFront(ll, e)
               /\ value' = [value EXCEPT ![e] = node]
               /\ ret' = [ret EXCEPT ![t] = RetNode(value[e])]
               /\ pc' = [pc EXCEPT ![t] = "Unlock"]
               /\ UNCHANGED dict
          ELSE /\ ll' = PushFront(ll, node.id)
               /\ value' = [value EXCEPT ![node.id] = node]
               /\ dict' = Store(dict, node.key, node.id)
               /\ pc' = [pc EXCEPT ![t] = "AddEvict"]
               /\ UNCHANGED ret
    /\ UNCHANGED <<mu, cap, nextNode, op, arg, key, handle>>

\* A faulty variant: the eviction is a no-op that still returns the node.
removeNothing(l, d, e) ==
    [ll |-> l,
     dict |-> d,
     removed |-> value[e]]

\* A faulty variant: the element is unlinked and the index keeps its key.
removeKeepsIndex(l, d, e) ==
    [ll |-> ListRemove(l, e),
     dict |-> d,
     removed |-> value[e]]

\* c.remove(e): the index key is taken from the removed node.
remove(l, d, e) ==
    [ll |-> ListRemove(l, e),
     dict |-> Delete(d, value[e].key),
     removed |-> value[e]]

\* A faulty variant: the index keeps the key.
removeWithKeyKeepsIndex(l, d, e, k) ==
    [ll |-> ListRemove(l, e),
     dict |-> d,
     removed |-> value[e]]

\* c.removeWithKey(e, key)
removeWithKey(l, d, e, k) ==
    [ll |-> ListRemove(l, e),
     dict |-> Delete(d, k),
     removed |-> value[e]]

\* A faulty variant: the eviction starts one element late.
AddEvictOneLate(t) ==
    /\ pc[t] = "AddEvict"
    /\ IF Len(ll) > cap + 1
       THEN LET r == remove(ll, dict, Back(ll))
            IN /\ ll' = r.ll
               /\ dict' = r.dict
               /\ ret' = [ret EXCEPT ![t] = RetNode(r.removed)]
       ELSE /\ ret' = [ret EXCEPT ![t] = RetNode(NilNode)]
            /\ UNCHANGED <<ll, dict>>
    /\ pc' = [pc EXCEPT ![t] = "Unlock"]
    /\ UNCHANGED <<value, mu, cap, nextNode, op, arg, key, handle>>

\* if c.ll.Len() > c.maxElementCount { return c.remove(c.ll.Back()) }
\* return nil
AddEvict(t) ==
    /\ pc[t] = "AddEvict"
    /\ IF Len(ll) > cap
       THEN LET r == remove(ll, dict, Back(ll))
            IN /\ ll' = r.ll
               /\ dict' = r.dict
               /\ ret' = [ret EXCEPT ![t] = RetNode(r.removed)]
       ELSE /\ ret' = [ret EXCEPT ![t] = RetNode(NilNode)]
            /\ UNCHANGED <<ll, dict>>
    /\ pc' = [pc EXCEPT ![t] = "Unlock"]
    /\ UNCHANGED <<value, mu, cap, nextNode, op, arg, key, handle>>

\* A faulty variant: the call returns with the mutex still held.
UnlockKeeps(t) ==
    /\ pc[t] = "Unlock"
    /\ pc' = [pc EXCEPT ![t] = "idle"]
    /\ op' = [op EXCEPT ![t] = ""]
    /\ arg' = [arg EXCEPT ![t] = NilNode]
    /\ key' = [key EXCEPT ![t] = Nil]
    /\ handle' = [handle EXCEPT ![t] = Nil]
    /\ ret' = [ret EXCEPT ![t] = NoRet]
    /\ UNCHANGED <<ll, value, dict, mu, cap, nextNode>>

\* The deferred c.mu.Unlock() and the return: the call's locals are gone.
Unlock(t) ==
    /\ pc[t] = "Unlock"
    /\ mu' = Nil
    /\ pc' = [pc EXCEPT ![t] = "idle"]
    /\ op' = [op EXCEPT ![t] = ""]
    /\ arg' = [arg EXCEPT ![t] = NilNode]
    /\ key' = [key EXCEPT ![t] = Nil]
    /\ handle' = [handle EXCEPT ![t] = Nil]
    /\ ret' = [ret EXCEPT ![t] = NoRet]
    /\ UNCHANGED <<ll, value, dict, cap, nextNode>>

\* The end of a call that never took the mutex: Add's panic, Has, and the
\* misses of Get and Remove.
Exit(t) ==
    /\ pc[t] = "Exit"
    /\ pc' = [pc EXCEPT ![t] = "idle"]
    /\ op' = [op EXCEPT ![t] = ""]
    /\ ret' = [ret EXCEPT ![t] = NoRet]
    /\ UNCHANGED <<ll, value, dict, mu, cap, nextNode, arg, key, handle>>

\* ------------------------------------------------------------------ Get
\* c.dict.Load(string(key)) without the mutex; a miss returns nil.
GetCall(t, k) ==
    /\ pc[t] = "idle"
    /\ op' = [op EXCEPT ![t] = "Get"]
    /\ IF Load(dict, k) # Nil
       THEN /\ key' = [key EXCEPT ![t] = k]
            /\ handle' = [handle EXCEPT ![t] = Load(dict, k)]
            /\ pc' = [pc EXCEPT ![t] = "GetLock"]
            /\ UNCHANGED ret
       ELSE /\ ret' = [ret EXCEPT ![t] = RetNode(NilNode)]
            /\ pc' = [pc EXCEPT ![t] = "Exit"]
            /\ UNCHANGED <<key, handle>>
    /\ UNCHANGED <<ll, value, dict, mu, cap, nextNode, arg>>

\* c.ll.MoveToFront(ele); return ele.Value.(Node)
GetBody(t) ==
    /\ pc[t] = "GetBody"
    /\ ll' = MoveToFront(ll, handle[t])
    /\ ret' = [ret EXCEPT ![t] = RetNode(value[handle[t]])]
    /\ pc' = [pc EXCEPT ![t] = "Unlock"]
    /\ UNCHANGED <<value, dict, mu, cap, nextNode, op, arg, key, handle>>

\* ------------------------------------------------------------------ Has
\* A faulty variant: Has moves the element it finds to the front.
HasCallPromotes(t, k) ==
    /\ pc[t] = "idle"
    /\ op' = [op EXCEPT ![t] = "Has"]
    /\ ret' = [ret EXCEPT ![t] = RetBool(Load(dict, k) # Nil)]
    /\ pc' = [pc EXCEPT ![t] = "Exit"]
    /\ ll' = (IF Load(dict, k) # Nil THEN <<Load(dict, k)>> \o Without(ll, Load(dict, k))
              ELSE ll)
    /\ UNCHANGED <<value, dict, mu, cap, nextNode, arg, key, handle>>

\* _, exists := c.dict.Load(string(key)); return exists
HasCall(t, k) ==
    /\ pc[t] = "idle"
    /\ op' = [op EXCEPT ![t] = "Has"]
    /\ ret' = [ret EXCEPT ![t] = RetBool(Load(dict, k) # Nil)]
    /\ pc' = [pc EXCEPT ![t] = "Exit"]
    /\ UNCHANGED <<ll, value, dict, mu, cap, nextNode, arg, key, handle>>

\* ------------------------------------------------------------------ Len
LenCall(t) ==
    /\ pc[t] = "idle"
    /\ op' = [op EXCEPT ![t] = "Len"]
    /\ pc' = [pc EXCEPT ![t] = "LenLock"]
    /\ UNCHANGED <<ll, value, dict, mu, cap, nextNode, arg, key, handle, ret>>

\* return c.ll.Len()
LenBody(t) ==
    /\ pc[t] = "LenBody"
    /\ ret' = [ret EXCEPT ![t] = RetInt(Len(ll))]
    /\ pc' = [pc EXCEPT ![t] = "Unlock"]
    /\ UNCHANGED <<ll, value, dict, mu, cap, nextNode, op, arg, key, handle>>

\* --------------------------------------------------------------- Remove
\* c.dict.Load(keyS) without the mutex; a miss returns nil.
RemoveCall(t, k) ==
    /\ pc[t] = "idle"
    /\ op' = [op EXCEPT ![t] = "Remove"]
    /\ IF Load(dict, k) # Nil
       THEN /\ key' = [key EXCEPT ![t] = k]
            /\ handle' = [handle EXCEPT ![t] = Load(dict, k)]
            /\ pc' = [pc EXCEPT ![t] = "RemoveLock"]
            /\ UNCHANGED ret
       ELSE /\ ret' = [ret EXCEPT ![t] = RetNode(NilNode)]
            /\ pc' = [pc EXCEPT ![t] = "Exit"]
            /\ UNCHANGED <<key, handle>>
    /\ UNCHANGED <<ll, value, dict, mu, cap, nextNode, arg>>

\* return c.removeWithKey(elem, keyS)
RemoveBody(t) ==
    /\ pc[t] = "RemoveBody"
    /\ LET r == removeWithKey(ll, dict, handle[t], key[t])
       IN /\ ll' = r.ll
          /\ dict' = r.dict
          /\ ret' = [ret EXCEPT ![t] = RetNode(r.removed)]
    /\ pc' = [pc EXCEPT ![t] = "Unlock"]
    /\ UNCHANGED <<value, mu, cap, nextNode, op, arg, key, handle>>

\* ------------------------------------------------------ history variables
NoCall == [op |-> "", key |-> Nil, node |-> NilNode, ret |-> NoRet]

Call(o, k, n) == [op |-> o, key |-> k, node |-> n, ret |-> NoRet]

\* The marker of a history that is no longer recorded.
Off == <<Call("off", Nil, NilNode)>>

\* The recorded history after call c returned: Has and Len are left out, Add
\* and Get are appended while there is room, anything else (Remove, a panic)
\* ends the recording.
Extend(tr, c) ==
    IF tr = Off \/ c.op \in {"Has", "Len"} THEN tr
    ELSE IF c.op \in {"Add", "Get"} /\ c.ret.kind = "node" /\ Len(tr) < MaxCalls
         THEN Append(tr, c)
         ELSE Off

\* Key k has just been used.
Touch(r, k) == <<k>> \o Without(r, k)

NoHistory ==
    /\ cur = [t \in Threads |-> NoCall]
    /\ last = NoCall
    /\ trace = <<>>
    /\ recent = <<>>
    /\ lin = {}
    /\ handed = [i \in Elems |-> 0]

\* Thread t starts call c.
Begin(t, c) ==
    /\ cur' = [cur EXCEPT ![t] = c]
    /\ UNCHANGED <<last, trace, recent>>

\* Thread t's call returns.
Return(t) ==
    LET c == [cur[t] EXCEPT !.ret = ret[t]]
    IN /\ cur' = [cur EXCEPT ![t] = NoCall]
       /\ last' = (IF c.op \in {"Add", "Remove"} THEN c ELSE NoCall)
       /\ trace' = Extend(trace, c)
       /\ UNCHANGED recent

AllIdle == \A t \in Threads : pc[t] = "idle"

\* ------------------------------------------------------------ the specs
\* Any number of threads calling the cache concurrently.
Init ==
    /\ \E c \in MinCap..MaxCap : New(c)
    /\ NoHistory

Next ==
    \E t \in Threads :
        \/ AddNil(t) /\ UNCHANGED <<seqVars, linVars>>
        \/ nextNode <= MaxAdds /\ (\E k \in Keys : AddCall(t, k))
             /\ UNCHANGED <<seqVars, linVars>>
        \/ Lock(t) /\ UNCHANGED <<seqVars, linVars>>
        \/ AddBody(t) /\ UNCHANGED <<seqVars, linVars>>
        \/ AddEvict(t) /\ UNCHANGED <<seqVars, linVars>>
        \/ Unlock(t) /\ UNCHANGED <<seqVars, linVars>>
        \/ Exit(t) /\ UNCHANGED <<seqVars, linVars>>
        \/ (\E k \in Keys : GetCall(t, k)) /\ UNCHANGED <<seqVars, linVars>>
        \/ GetBody(t) /\ UNCHANGED <<seqVars, linVars>>
        \/ (\E k \in Keys : HasCall(t, k)) /\ UNCHANGED <<seqVars, linVars>>
        \/ LenCall(t) /\ UNCHANGED <<seqVars, linVars>>
        \/ LenBody(t) /\ UNCHANGED <<seqVars, linVars>>
        \/ (\E k \in Keys : RemoveCall(t, k)) /\ UNCHANGED <<seqVars, linVars>>
        \/ RemoveBody(t) /\ UNCHANGED <<seqVars, linVars>>

Spec == Init /\ [][Next]_vars

\* The same under fair scheduling: a thread inside a call goes on taking
\* its steps (the Go scheduler preempts), and a thread that calls
\* c.mu.Lock() gets the mutex if it is free again and again (sync.Mutex
\* hands the mutex to a waiter that has been starving).
Runs(t) ==
    (\/ AddBody(t) \/ AddEvict(t) \/ Unlock(t) \/ Exit(t)
     \/ GetBody(t) \/ LenBody(t) \/ RemoveBody(t))
    /\ UNCHANGED <<seqVars, linVars>>

Acquires(t) == Lock(t) /\ UNCHANGED <<seqVars, linVars>>

FairSpec ==
    /\ Init
    /\ [][Next]_vars
    /\ \A t \in Threads : WF_vars(Runs(t)) /\ SF_vars(Acquires(t))

\* The calls made one at a time (a call starts when no call is in progress),
\* with the history variables recording them.  The code does not tell
\* threads apart, so one thread makes the calls.
Callers == {1}

SeqInit ==
    /\ \E c \in MinCap..MaxSeqCap : New(c)
    /\ NoHistory

SeqNext ==
    \E t \in Callers :
        \/ AllIdle /\ AddNil(t) /\ Begin(t, Call("Add", Nil, NilNode))
             /\ UNCHANGED linVars
        \/ AllIdle /\ nextNode <= MaxSeqAdds
             /\ (\E k \in SeqKeys :
                    AddCall(t, k) /\ Begin(t, Call("Add", k, NodeOf(k, nextNode))))
             /\ UNCHANGED linVars
        \/ Lock(t) /\ UNCHANGED <<seqVars, linVars>>
        \/ AddBody(t) /\ recent' = Touch(recent, arg[t].key)
             /\ UNCHANGED <<cur, last, trace, linVars>>
        \/ AddEvict(t)
             /\ recent' = (IF ret'[t].node # NilNode
                           THEN Without(recent, ret'[t].node.key) ELSE recent)
             /\ UNCHANGED <<cur, last, trace, linVars>>
        \/ Unlock(t) /\ Return(t) /\ UNCHANGED linVars
        \/ Exit(t) /\ Return(t) /\ UNCHANGED linVars
        \/ AllIdle
             /\ (\E k \in SeqKeys : GetCall(t, k) /\ Begin(t, Call("Get", k, NilNode)))
             /\ UNCHANGED linVars
        \/ GetBody(t) /\ recent' = Touch(recent, key[t])
             /\ UNCHANGED <<cur, last, trace, linVars>>
        \/ AllIdle
             /\ (\E k \in SeqKeys : HasCall(t, k) /\ Begin(t, Call("Has", k, NilNode)))
             /\ UNCHANGED linVars
        \/ AllIdle /\ LenCall(t) /\ Begin(t, Call("Len", Nil, NilNode))
             /\ UNCHANGED linVars
        \/ LenBody(t) /\ UNCHANGED <<seqVars, linVars>>
        \/ AllIdle
             /\ (\E k \in SeqKeys :
                    RemoveCall(t, k) /\ Begin(t, Call("Remove", k, NilNode)))
             /\ UNCHANGED linVars
        \/ RemoveBody(t) /\ recent' = Without(recent, key[t])
             /\ UNCHANGED <<cur, last, trace, linVars>>

SeqSpec == SeqInit /\ [][SeqNext]_vars

\* ------------------------------------------------- linearizability
\* The calls as they run alone, on the list of the cached nodes s (front
\* first) of a cache of capacity c: the list after the call and its result.
Holds(s, k) == \E i \in 1..Len(s) : s[i].key = k

Find(s, k) == s[CHOOSE i \in 1..Len(s) : s[i].key = k]

Drop(s, k) == SelectSeq(s, LAMBDA x : x.key # k)

AloneAdd(s, c, n) ==
    IF Holds(s, n.key)
    THEN [s |-> <<n>> \o Drop(s, n.key), ret |-> RetNode(Find(s, n.key))]
    ELSE IF Len(s) + 1 > c
         THEN [s |-> SubSeq(<<n>> \o s, 1, Len(s)),
               ret |-> RetNode((<<n>> \o s)[Len(s) + 1])]
         ELSE [s |-> <<n>> \o s, ret |-> RetNode(NilNode)]

AloneGet(s, k) ==
    IF Holds(s, k)
    THEN [s |-> <<Find(s, k)>> \o Drop(s, k), ret |-> RetNode(Find(s, k))]
    ELSE [s |-> s, ret |-> RetNode(NilNode)]

AloneRemove(s, k) ==
    IF Holds(s, k)
    THEN [s |-> Drop(s, k), ret |-> RetNode(Find(s, k))]
    ELSE [s |-> s, ret |-> RetNode(NilNode)]

Alone(s, c, call) ==
    CASE call.op = "Add" -> AloneAdd(s, c, call.node)
      [] call.op = "Get" -> AloneGet(s, call.key)
      [] call.op = "Remove" -> AloneRemove(s, call.key)

\* lin is the set of the pairs (s, st) such that some order of the calls so
\* far, which keeps a call that returned before another began in front of
\* it, leaves the list s when the calls run alone in that order, every call
\* that returned having returned what it did; st[t] is Pending when t's
\* call in progress is not in the order yet and its result when it is.
Pending == [kind |-> "pending", node |-> NilNode, ok |-> FALSE, n |-> 0]

\* One more call in progress, that of u, takes effect.
TakeEffect(cfg, u, calls) ==
    LET r == Alone(cfg.s, cap, calls[u])
    IN [s |-> r.s, st |-> [cfg.st EXCEPT ![u] = r.ret]]

RECURSIVE Effects(_, _)
Effects(S, calls) ==
    LET more == S \cup UNION {{TakeEffect(cfg, u, calls) :
                                 u \in {v \in Threads : cfg.st[v] = Pending}} :
                              cfg \in S}
    IN IF more = S THEN S ELSE Effects(more, calls)

\* Thread t begins call c.
LinBegin(t, c) ==
    /\ cur' = [cur EXCEPT ![t] = c]
    /\ lin' = Effects({[cfg EXCEPT !.st[t] = Pending] : cfg \in lin}, cur')
    /\ UNCHANGED <<last, trace, recent, handed>>

\* One more call returned node n (two is as many as is counted).
HandBack(h, n) == IF n = NilNode THEN h ELSE [h EXCEPT ![n.id] = Min(h[n.id] + 1, 2)]

\* Thread t's call returns ret[t]: the nodes Add and Remove return are the
\* ones that leave the cache.
LinReturn(t) ==
    /\ cur' = [cur EXCEPT ![t] = NoCall]
    /\ lin' = {[cfg EXCEPT !.st[t] = NoRet] : cfg \in {x \in lin : x.st[t] = ret[t]}}
    /\ handed' = (IF cur[t].op \in {"Add", "Remove"}
                  THEN HandBack(handed, ret[t].node) ELSE handed)
    /\ UNCHANGED <<last, trace, recent>>

\* Threads calling Add, Get and Remove concurrently on a cache of capacity
\* one or more, with lin kept.
LinInit ==
    /\ \E c \in 1..MaxCap : New(c)
    /\ cur = [t \in Threads |-> NoCall]
    /\ last = NoCall
    /\ trace = <<>>
    /\ recent = <<>>
    /\ lin = {[s |-> <<>>, st |-> [t \in Threads |-> NoRet]]}
    /\ handed = [i \in Elems |-> 0]

LinNext ==
    \E t \in Threads :
        \/ nextNode <= MaxAdds
             /\ (\E k \in Keys :
                    AddCall(t, k) /\ LinBegin(t, Call("Add", k, NodeOf(k, nextNode))))
        \/ Lock(t) /\ UNCHANGED <<seqVars, linVars>>
        \/ AddBody(t) /\ UNCHANGED <<seqVars, linVars>>
        \/ AddEvict(t) /\ UNCHANGED <<seqVars, linVars>>
        \/ Unlock(t) /\ LinReturn(t)
        \/ Exit(t) /\ LinReturn(t)
        \/ \E k \in Keys : GetCall(t, k) /\ LinBegin(t, Call("Get", k, NilNode))
        \/ GetBody(t) /\ UNCHANGED <<seqVars, linVars>>
        \/ \E k \in Keys : RemoveCall(t, k) /\ LinBegin(t, Call("Remove", k, NilNode))
        \/ RemoveBody(t) /\ UNCHANGED <<seqVars, linVars>>

LinSpec == LinInit /\ [][LinNext]_vars

\* --------------------------------------------------------------- claims

\* The nodes in the list, front first.
ListNodes == [i \in 1..Len(ll) |-> value[ll[i]]]

IndexKeys == {k \in KeySpace : dict[k] # Nil}

ListKeys == {value[ll[i]].key : i \in 1..Len(ll)}

\* I1: the index and the list hold the same keys, and the index entry of a
\* key is the list element that carries the key.
I1 ==
    /\ IndexKeys = ListKeys
    /\ \A k \in IndexKeys :
        /\ dict[k] \in Range(ll)
        /\ value[dict[k]].key = k

\* C1: after any sequence of calls made one at a time, the keys of the index
\* are the keys of the list's nodes and each index entry is the element
\* that carries its key.
C1_SequentialI1 == AllIdle => I1

C1_Witness ==
    /\ AllIdle
    /\ Len(ll) = 1
    /\ cap = 2
    /\ last.op = "Remove"
    /\ last.ret.node # NilNode

\* C2: whenever no call is in progress, whatever the interleaving of the
\* calls before, the index and the list hold the same keys.
C2_ConcurrentI1 == AllIdle => IndexKeys = ListKeys

\* C3: with maxElementCount = C >= 0, whenever the mutex is free the list
\* holds at most C elements, and Len never returns more than C.
C3_CapacityBound ==
    cap >= 0 =>
        /\ mu = Nil => Len(ll) <= cap
        /\ \A t \in Threads : op[t] = "Len" /\ ret[t].kind = "int" => ret[t].n <= cap

C3_Witness ==
    /\ cap = 1
    /\ Len(ll) = 1
    /\ nextNode > 2
    /\ \E t \in Threads : op[t] = "Len" /\ ret[t].kind = "int" /\ ret[t].n = 1

\* ---- the recorded history (sequential specification)
Recorded == trace # Off

AddsOf(tr) == SelectSeq(tr, LAMBDA c : c.op = "Add")

GetsOf(tr) == SelectSeq(tr, LAMBDA c : c.op = "Get")

KeysOf(tr) == {tr[i].key : i \in 1..Len(tr)}

DistinctKeys(tr) == Cardinality(KeysOf(tr)) = Len(tr)

LenReturned(t) == op[t] = "Len" /\ ret[t].kind = "int"

Moves(t, a, b) == pc[t] = a /\ pc'[t] = b

\* The keys of the list's nodes, front first.
ListOrder == [i \in 1..Len(ll) |-> value[ll[i]].key]

\* Add's step after it pushed a new element: nil when the list is not over
\* maxElementCount; otherwise the back element, which carries the key whose
\* last Add or Get hit is the oldest, leaves the list and the index and its
\* node is returned.
EvictsOldest(t) ==
    IF Len(ll) <= cap
    THEN /\ ret'[t] = RetNode(NilNode)
         /\ ll' = ll
         /\ dict' = dict
    ELSE LET e == ll[Len(ll)]
         IN /\ ret'[t] = RetNode(value[e])
            /\ value[e].key = recent[Len(recent)]
            /\ dict[value[e].key] = e
            /\ ll' = SubSeq(ll, 1, Len(ll) - 1)
            /\ dict' = [dict EXCEPT ![value[e].key] = Nil]

\* maxElementCount + 1 distinct keys were added in order, with no Get of the
\* first one: the last Add returned the first node.
FirstInFirstOut ==
    LET adds == AddsOf(trace)
    IN (/\ Recorded
        /\ trace # <<>>
        /\ Len(adds) = cap + 1
        /\ DistinctKeys(adds)
        /\ trace[Len(trace)].op = "Add"
        /\ \A i \in 1..Len(trace) :
             trace[i].op = "Get" => trace[i].key # adds[1].key)
       => trace[Len(trace)].ret.node = adds[1].node

\* C5: an Add of a key not present returns nil when the list does not
\* exceed maxElementCount, and otherwise evicts and returns the back entry,
\* the least recently added or read one; in particular C+1 distinct keys
\* added in order, the first never read, evict the first.
C5_EvictionOrder ==
    [][/\ \A t \in Threads : Moves(t, "AddEvict", "Unlock") => EvictsOldest(t)
       /\ FirstInFirstOut']_vars

C5_Witness ==
    /\ Recorded
    /\ cap = 2
    /\ Len(trace) = 4
    /\ Len(AddsOf(trace)) = 3
    /\ DistinctKeys(AddsOf(trace))
    /\ trace[3].op = "Get"
    /\ trace[3].ret.node # NilNode
    /\ trace[4].ret.node = trace[1].node

\* Get's step under the mutex on a hit of key[t]: the key's element goes to
\* the front, and the list is in the order of the last uses.
Promotes(t) ==
    /\ handle[t] \in Range(ll)
    /\ value[handle[t]].key = key[t]
    /\ ret'[t] = RetNode(value[handle[t]])
    /\ ll' = <<handle[t]>> \o Without(ll, handle[t])
    /\ ListOrder' = recent'

\* The history is: C = maxElementCount distinct keys k1..kC added, Get(k1),
\* a new key added.
ReadThenAdd ==
    /\ Recorded
    /\ Len(trace) = cap + 2
    /\ \A i \in 1..cap : trace[i].op = "Add"
    /\ trace[cap + 1].op = "Get"
    /\ trace[cap + 2].op = "Add"
    /\ DistinctKeys(AddsOf(trace))
    /\ trace[cap + 1].key = trace[1].key

\* The node of k2, the second key added.
SecondAdded == AddsOf(trace)[2].node

\* C6 as claimed: every Get hit moves the element to the front, and for
\* every capacity C >= 1, k1..kC added, Get(k1) and a new key added evict
\* k2, not k1.
C6_PromotionFromOne ==
    [][/\ \A t \in Threads : Moves(t, "GetBody", "Unlock") => Promotes(t)
       /\ (cap >= 1 /\ ReadThenAdd =>
              /\ trace[cap + 2].ret.node = SecondAdded
              /\ trace[cap + 2].ret.node # trace[1].node)']_vars

\* C6 amended: the same for every capacity C >= 2 (with C = 1 the key read
\* is the only one, and it is the one evicted).
C6_PromotionOnRead ==
    [][/\ \A t \in Threads : Moves(t, "GetBody", "Unlock") => Promotes(t)
       /\ (cap >= 2 /\ ReadThenAdd =>
              /\ trace[cap + 2].ret.node = SecondAdded
              /\ trace[cap + 2].ret.node # trace[1].node)']_vars

C6_Witness ==
    /\ cap = 2
    /\ ReadThenAdd
    /\ trace[3].ret.node = trace[1].node
    /\ trace[4].ret.node = trace[2].node

Returned(t) == pc[t] \in {"Unlock", "Exit"}

\* Thread t's Get or Has comes right after the Add of a node with the same
\* key: it returns the node, or true.
AfterAdd(t) ==
    Returned(t) /\ last.op = "Add" /\ last.ret.kind = "node"
    /\ cur[t].key = last.key =>
        /\ cur[t].op = "Get" => ret[t] = RetNode(last.node)
        /\ cur[t].op = "Has" => ret[t] = RetBool(TRUE)

\* Thread t's Get or Has comes right after the Remove of the same key: it
\* returns nil, or false.
AfterRemove(t) ==
    Returned(t) /\ last.op = "Remove" /\ cur[t].key = last.key =>
        /\ cur[t].op = "Get" => ret[t] = RetNode(NilNode)
        /\ cur[t].op = "Has" => ret[t] = RetBool(FALSE)

\* C8 as claimed: for any cache, Get(k) right after Add of (k, v) returns v
\* and Has(k) true; right after Remove(k), Get(k) returns nil and Has(k)
\* false.
C8_RoundTripAnyCache == \A t \in Threads : AfterAdd(t) /\ AfterRemove(t)

\* C8 amended: the same for maxElementCount >= 1 (with 0 the node added is
\* evicted at once).
C8_RoundTrip ==
    \A t \in Threads : (cap >= 1 => AfterAdd(t)) /\ AfterRemove(t)

C8_Witness ==
    /\ cap = 1
    /\ last.op = "Add"
    /\ last.ret.node # NilNode
    /\ last.ret.node.key # last.key
    /\ \E t \in Threads :
        /\ Returned(t)
        /\ cur[t].op = "Get"
        /\ cur[t].key = last.key
        /\ ret[t] = RetNode(last.node)

\* C9: the results of concurrent Add, Get and Remove calls, and the cache
\* they leave once all have returned, are those of the calls run alone one
\* after the other in an order that keeps every call that returned before
\* another began in front of it.
C9_Linearizable ==
    /\ lin # {}
    /\ AllIdle => \E cfg \in lin : cfg.s = ListNodes /\ KeysOf(cfg.s) = IndexKeys

\* C10: Add(nil) panics; the step leaves the list, the elements, the index
\* and the mutex as they were, and the panicking thread never holds the
\* mutex.
C10_NilPanics ==
    [][\A t \in Threads :
        pc[t] = "idle" /\ op'[t] = "Add" /\ arg'[t] = NilNode =>
            /\ ret'[t] = RetPanic
            /\ UNCHANGED <<ll, value, dict, mu>>
            /\ mu' # t]_vars

C10_Witness ==
    \E t \in Threads :
        /\ ret[t] = RetPanic
        /\ mu \notin {Nil, t}
        /\ Len(ll) = 1

\* Call c finds nothing to change: a Has, a Len, or a Get or a Remove of a
\* key that is absent.
NonMutating(c) ==
    \/ c.op \in {"Has", "Len"}
    \/ c.op \in {"Get", "Remove"} /\ dict[c.key] = Nil

\* What such a call reports.
Reports(c) ==
    CASE c.op = "Has" -> RetBool(dict[c.key] # Nil)
      [] c.op = "Len" -> RetInt(Len(ll))
      [] OTHER -> RetNode(NilNode)

\* C11: no step of a Get or a Remove of an absent key, of a Has or of a Len
\* changes the list (membership and order), the index or a stored value;
\* the call returns nil, the membership boolean or the length of the list,
\* never a panic.
C11_NonMutating ==
    [][\A t \in Threads :
        \A c \in {cur[t], cur'[t]} :
            NonMutating(c) =>
                /\ UNCHANGED <<ll, value, dict>>
                /\ (cur'[t] = c /\ pc'[t] \in {"Unlock", "Exit"}) =>
                       ret'[t] = Reports(c)]_vars

C11_Witness ==
    \E t \in Threads :
        /\ pc[t] = "Exit"
        /\ cur[t].op = "Has"
        /\ ret[t] = RetBool(TRUE)
        /\ Len(ll) = 2
        /\ value[ll[2]].key = cur[t].key

\* C12: a Remove of a key k that is present (calls made one at a time) goes
\* through the mutex; under it k's element leaves the list, which gets
\* shorter by one and keeps the order of the others, k leaves the index,
\* which keeps the other keys, no stored value changes and the node stored
\* under k is returned; no other step of the call changes anything.
C12_RemovePresent ==
    [][\A t \in Threads :
        /\ (cur[t] = NoCall /\ cur'[t].op = "Remove" /\ dict[cur'[t].key] # Nil) =>
               pc'[t] = "RemoveLock"
        /\ (cur[t].op = "Remove" \/ cur'[t].op = "Remove") =>
               IF pc[t] = "RemoveBody"
               THEN LET k == cur[t].key
                        e == dict[k]
                    IN /\ e \in Range(ll)
                       /\ value[e].key = k
                       /\ ll' = Without(ll, e)
                       /\ Len(ll') = Len(ll) - 1
                       /\ dict' = [dict EXCEPT ![k] = Nil]
                       /\ value' = value
                       /\ ret'[t] = RetNode(value[e])
               ELSE UNCHANGED <<ll, value, dict>>]_vars

C12_Witness ==
    \E t \in Threads :
        /\ pc[t] = "Unlock"
        /\ cur[t].op = "Remove"
        /\ ret[t].node.key = cur[t].key
        /\ cap = 2
        /\ Len(ll) = 1
        /\ IndexKeys = {value[ll[1]].key}

\* Thread t takes the step.
StepOf(t) == pc'[t] # pc[t]

\* C13: no step of a Get, in any interleaving and whether or not the element
\* it loaded is still in the list, changes the index, a stored value, the
\* elements in the list or their number, or the order of the elements other
\* than the one it loaded.
C13_GetFrame ==
    [][\A t \in Threads :
        StepOf(t) /\ (op[t] = "Get" \/ op'[t] = "Get") =>
            /\ dict' = dict
            /\ value' = value
            /\ Range(ll') = Range(ll)
            /\ Len(ll') = Len(ll)
            /\ Without(ll', handle[t]) = Without(ll, handle[t])]_vars

C13_Witness ==
    \E t \in Threads :
        /\ pc[t] = "Unlock"
        /\ op[t] = "Get"
        /\ handle[t] \notin Range(ll)
        /\ ret[t].node # NilNode
        /\ ll # <<>>

\* C14: with maxElementCount <= 0 (calls made one at a time) an Add of a
\* node returns that node, and leaves the list and the index empty; they are
\* empty whenever no call is in progress, Len returns 0, Get and Remove
\* return nil and Has false.
C14_Degenerate ==
    cap <= 0 =>
        /\ AllIdle => ll = <<>> /\ IndexKeys = {}
        /\ \A t \in Threads :
            /\ pc[t] = "AddEvict" => ll = <<arg[t].id>> /\ value[ll[1]] = arg[t]
            /\ Returned(t) =>
                CASE cur[t].op = "Add" /\ cur[t].node # NilNode ->
                        ret[t] = RetNode(cur[t].node) /\ ll = <<>> /\ IndexKeys = {}
                  [] cur[t].op \in {"Get", "Remove"} -> ret[t] = RetNode(NilNode)
                  [] cur[t].op = "Has" -> ret[t] = RetBool(FALSE)
                  [] cur[t].op = "Len" -> ret[t] = RetInt(0)
                  [] OTHER -> TRUE

C14_Witness ==
    \E t \in Threads :
        /\ cap = MinCap
        /\ pc[t] = "Unlock"
        /\ cur[t].op = "Add"
        /\ ret[t] = RetNode(cur[t].node)
        /\ cur[t].node.id = 2

\* Thread t's step reads or writes the index or the list in an Add, a
\* Remove or a Len: Remove's Load, and the steps after c.mu.Lock().
Accesses(t) ==
    \/ pc[t] = "idle" /\ op'[t] = "Remove"
    \/ StepOf(t) /\ pc[t] \in {"AddBody", "AddEvict", "LenBody", "RemoveBody"}

\* C15: every step of an Add, a Remove or a Len that reads the index or
\* reads or writes the list is taken by the thread that holds the mutex.
C15_LockDiscipline == [][\A t \in Threads : Accesses(t) => mu = t]_vars

\* C16: a Get or a Remove that took the mutex with the element it loaded
\* no longer in the list returns nil and leaves the index alone.
C16_NoStaleHandle ==
    [][\A t \in Threads :
        pc[t] \in {"GetBody", "RemoveBody"} /\ pc'[t] = "Unlock"
        /\ handle[t] \notin Range(ll) =>
            /\ ret'[t] = RetNode(NilNode)
            /\ dict' = dict]_vars

\* C17: whenever the mutex is free, every element the index holds is in the
\* list and carries the key it is stored under.
C17_NoDanglingHandle ==
    mu = Nil =>
        \A k \in IndexKeys : dict[k] \in Range(ll) /\ value[dict[k]].key = k

C17_Witness ==
    /\ mu = Nil
    /\ IndexKeys # {}
    /\ \E t \in Threads : handle[t] # Nil /\ handle[t] \notin Range(ll)

LockPcs == {"AddLock", "GetLock", "LenLock", "RemoveLock"}

LockedPcs == {"AddBody", "AddEvict", "GetBody", "LenBody", "RemoveBody", "Unlock"}

\* C18: under fair scheduling every call returns; a thread holds the mutex
\* exactly from its c.mu.Lock() to its return (so no return leaves it held
\* and no call takes it twice), and the mutex is free when every thread in
\* a call waits for it.
C18_NoBlocking ==
    /\ [](\A t \in Threads : mu = t <=> pc[t] \in LockedPcs)
    /\ []((\A t \in Threads : pc[t] \in LockPcs) => mu = Nil)
    /\ \A t \in Threads : (pc[t] # "idle") ~> (pc[t] = "idle")

C18_Witness ==
    /\ \A t \in Threads : pc[t] # "idle"
    /\ \E t \in Threads : pc[t] = "AddEvict" /\ Len(ll) > cap
    /\ \E t \in Threads : pc[t] \in LockPcs

\* C19: whenever no call is in progress, no two elements of the list carry
\* the same key, so the length of the list is the number of keys in it.
C19_UniqueKeys ==
    AllIdle =>
        /\ \A i, j \in 1..Len(ll) : value[ll[i]].key = value[ll[j]].key => i = j
        /\ Len(ll) = Cardinality(ListKeys)

\* C20: no node is returned out of the cache (by Remove, by an eviction or
\* by an overwrite) more than once.
C20_LeavesOnce == \A i \in Elems : handed[i] <= 1

====
